---- MODULE Spec2Model ----
(***************************************************************************)
(* CSV Image Link Fetcher (src/auto_images3.py).                           *)
(*                                                                         *)
(* One browser tab is one Streamlit session.  Each tab has its own         *)
(* st.session_state; the script of a tab runs top to bottom on every       *)
(* interaction, one run at a time per tab, the runs of different tabs on   *)
(* different threads of the same process, all sharing one file system.     *)
(*                                                                         *)
(* Encoding of Python values:                                              *)
(*   str            a sequence of one-character strings, "" is << >>       *)
(*   None (a cell)  NoneVal, a sequence that is no str                     *)
(*   None / object  None == << >> and Some(x) == << x >>                   *)
(*   dict           a function from its keys                               *)
(*   list           a sequence                                             *)
(***************************************************************************)
EXTENDS Integers, Sequences, FiniteSets, TLC

\* ------------------------------------------------------------- bounds
MaxRows == 2      \* data lines of an uploaded file
MaxDescLen == 1   \* characters of a description cell
MaxCands == 2     \* candidates the provider returns for the inputs enumerated
MaxRuns == 2      \* Start Processing clicks per upload
MaxIdleLog == 1    \* an upload is tried while the log holds at most this many lines
MaxOverflow == 3   \* lines a long log buffer is short of, or grows beyond, the view

\* ---------------------------------------------------- program constants
LogTextLen == 60   \* desc[:60], image_url[:60]
LogViewLen == 200  \* log_buffer[-200:]
MaxResults == 5    \* max_results=5

Tabs == {"t1", "t2"}
DefaultOutDir == "/tmp/images"
OutDirs == {DefaultOutDir, "/tmp/alt"}

None == << >>
Some(x) == << x >>
NoneVal == << "None" >>
RestKey == "<restkey>"

Min(a, b) == IF a < b THEN a ELSE b
Max(a, b) == IF a > b THEN a ELSE b
Range(q) == {q[i] : i \in 1..Len(q)}
SeqsUpTo(S, n) == UNION {[1..k -> S] : k \in 0..n}

\* ------------------------------------------------------- pure helpers
Whitespace == {" "}

RECURSIVE LStrip(_)
LStrip(t) ==
    IF t # << >> /\ Head(t) \in Whitespace THEN LStrip(Tail(t)) ELSE t

RECURSIVE RStrip(_)
RStrip(t) ==
    IF t # << >> /\ t[Len(t)] \in Whitespace
    THEN RStrip(SubSeq(t, 1, Len(t) - 1))
    ELSE t

\* The description taken as it stands, not trimmed.
NoStrip(t) == t

\* str.strip()
Strip(t) == RStrip(LStrip(t))

\* t[:n]
Prefix(t, n) == SubSeq(t, 1, Min(n, Len(t)))

\* t[-n:]
Suffix(t, n) == SubSeq(t, Max(1, Len(t) - n + 1), Len(t))

\* ------------------------------------------------------------- the CSV codec
\* csv.DictReader over one record: the header's names are the keys, a record
\* shorter than the header leaves the missing cells None (restval), a longer
\* one puts the surplus cells, as a list, under the key None (restkey).
Column(h, k) == CHOOSE i \in 1..Len(h) : h[i] = k /\ \A j \in (i+1)..Len(h) : h[j] # k

DictRow(h, rec) ==
    [k \in Range(h) \cup (IF Len(rec) > Len(h) THEN {RestKey} ELSE {}) |->
        IF k = RestKey /\ RestKey \notin Range(h)
        THEN SubSeq(rec, Len(h) + 1, Len(rec))
        ELSE IF Column(h, k) <= Len(rec) THEN rec[Column(h, k)] ELSE NoneVal]

\* list(csv.DictReader(lines)): blank lines are skipped.
NonBlank(rec) == rec # << >>

DictReader(h, recs) ==
    LET kept == SelectSeq(recs, NonBlank)
    IN  [i \in 1..Len(kept) |-> DictRow(h, kept[i])]

\* csv.DictWriter(f, fieldnames): writeheader() writes the field names as given.
OutputHeader(fn) == fn

\* DictWriter._dict_to_list: a row holding a key that is no field name raises
\* ValueError (extrasaction='raise'); a None cell is written as ''; a missing
\* key is written as restval ''.
Extras(fn, row) == DOMAIN row \ Range(fn)

WriteCell(v) == IF v = NoneVal THEN << >> ELSE v

RowCells(fn, row) ==
    [i \in 1..Len(fn) |-> IF fn[i] \in DOMAIN row THEN WriteCell(row[fn[i]]) ELSE << >>]

\* writerows(rows) writes row after row and stops at the first one that raises.
FirstBad(fn, rws) ==
    IF \E i \in 1..Len(rws) : Extras(fn, rws[i]) # {}
    THEN CHOOSE i \in 1..Len(rws) :
            /\ Extras(fn, rws[i]) # {}
            /\ \A j \in 1..(i-1) : Extras(fn, rws[j]) = {}
    ELSE Len(rws) + 1

WriterRaises(fn, rws) == FirstBad(fn, rws) <= Len(rws)

WrittenRecords(fn, rws) ==
    << OutputHeader(fn) >> \o [i \in 1..(FirstBad(fn, rws) - 1) |-> RowCells(fn, rws[i])]

\* A write of `new` at offset 0 of a file that holds `old` (each writer has its
\* own offset; open(..., "w") truncated the file when that writer opened it).
Overlay(old, new) == new \o SubSeq(old, Len(new) + 1, Len(old))

\* ------------------------------------------------------------- the inputs
Chars == {" ", "a"}
DescValues == SeqsUpTo(Chars, MaxDescLen)

CellValues(name) ==
    IF name = "description" THEN DescValues
    ELSE IF name = "image" THEN {<< "o" >>}
    ELSE {<< "7" >>}

FullRecords(h) == {r \in [1..Len(h) -> UNION {CellValues(h[i]) : i \in 1..Len(h)}] :
                      \A i \in 1..Len(h) : r[i] \in CellValues(h[i])}

\* A line of the file: as many cells as the header, fewer (down to a blank
\* line), or one more.
Records(h) ==
    UNION {{r, Append(r, << "x" >>)} \cup {SubSeq(r, 1, k) : k \in 0..(Len(h) - 1)} :
              r \in FullRecords(h)}

GoodHeaders == {<< "id", "description" >>, << "description", "image" >>}
BadHeaders == {<< >>, << "id" >>}

FileName(h) == IF Len(h) = 0 THEN "empty.csv" ELSE IF Len(h) = 1 THEN "one.csv" ELSE "two.csv"

CsvFile(h, ls) ==
    [name |-> FileName(h),
     encoding |-> IF h = << >> THEN NoneVal ELSE << "ascii" >>,
     decodable |-> TRUE, header |-> h, lines |-> ls]

\* Bytes that are no text in any encoding: detect() reports no encoding and
\* the decode raises.
BinaryFile ==
    [name |-> "blob.csv", encoding |-> NoneVal, decodable |-> FALSE,
     header |-> << >>, lines |-> << >>]

Files ==
    UNION {{CsvFile(h, ls) : ls \in SeqsUpTo(Records(h), IF h = << >> THEN 0 ELSE MaxRows)} :
              h \in GoodHeaders \cup BadHeaders}
    \cup {BinaryFile}

\* ------------------------------------------------------------- the provider
Urls == {<< >>, << "u" >>, << "w" >>}
FaultMsgs == {<< "timeout" >>, << "ratelimit" >>}

\* What ddgs.images(query=desc, max_results=5, ...) does: raises, or returns a
\* list of at most max_results candidates, each a dict with an 'image' entry.
Outcomes ==
    {[fault |-> TRUE, msg |-> m, results |-> << >>] : m \in FaultMsgs}
    \cup {[fault |-> FALSE, msg |-> << >>, results |-> r] :
             r \in SeqsUpTo({[image |-> u] : u \in Urls}, Min(MaxCands, MaxResults))}

\* The last candidate taken instead of the first.
LastCandidate(results) == IF results = << >> THEN << >> ELSE results[Len(results)].image

\* get_image_url on the provider's answer
GetImageUrl(results) == IF results = << >> THEN << >> ELSE results[1].image

\* ------------------------------------------------------------- the state
VARIABLES
    \* st.session_state of each tab, under the keys sess(k)
    csv_uploaded,   \* None or Some(file name)
    rows,           \* the list of row dicts
    fieldnames,     \* None or the list of column names (never empty once set)
    zip_ready,      \* None or Some(the archive: a list of [arcname, data])
    log_buffer,     \* the list of log lines (absent and [] are the same here)
    \* the script run of each tab
    pc,             \* "wait": no run; "loop", "write", "zip": inside Start Processing
    idx,            \* rows the loop has left behind in this run
    \* what each tab's page shows
    out_dir,        \* the value of the "Output folder" text input
    error,          \* st.error's message, or the exception that ended the run
    log_view,       \* what log_placeholder shows
    progress,       \* None or Some(<< numerator, denominator >>) of the progress bar
    downloaded,     \* None or Some(archive the download button last handed over)
    \* the provider and the clock, as each tab's runs used them
    calls,          \* lookups issued since the upload: [run, row, query]
    reply,          \* None or Some(the provider's latest answer)
    sleeps,         \* rows of this run after which the loop slept
    runs,           \* Start Processing clicks since the upload
    input,          \* None or Some(the file the committed upload came from)
    \* the file system all tabs share
    dirs,           \* the directories os.makedirs made
    disk            \* per directory: None or Some(records of updated.csv)

sessionVars == << csv_uploaded, rows, fieldnames, zip_ready, log_buffer >>
runVars == << pc, idx >>
pageVars == << out_dir, error, log_view, progress, downloaded >>
envVars == << calls, reply, sleeps, runs, input >>
fsVars == << dirs, disk >>
vars == << sessionVars, runVars, pageVars, envVars, fsVars >>

\* for k in (...): st.session_state.setdefault(sess(k), None if k != "rows" else [])
Init ==
    /\ csv_uploaded = [s \in Tabs |-> None]
    /\ rows = [s \in Tabs |-> << >>]
    /\ fieldnames = [s \in Tabs |-> None]
    /\ zip_ready = [s \in Tabs |-> None]
    /\ log_buffer = [s \in Tabs |-> << >>]
    /\ pc = [s \in Tabs |-> "wait"]
    /\ idx = [s \in Tabs |-> 0]
    /\ out_dir = [s \in Tabs |-> DefaultOutDir]
    /\ error = [s \in Tabs |-> ""]
    /\ log_view = [s \in Tabs |-> << >>]
    /\ progress = [s \in Tabs |-> None]
    /\ downloaded = [s \in Tabs |-> None]
    /\ calls = [s \in Tabs |-> << >>]
    /\ reply = [s \in Tabs |-> None]
    /\ sleeps = [s \in Tabs |-> << >>]
    /\ runs = [s \in Tabs |-> 0]
    /\ input = [s \in Tabs |-> None]
    /\ dirs = {}
    /\ disk = [d \in OutDirs |-> None]

\* ------------------------------------------------------------- the log
LogLine(kind, row, text) == [kind |-> kind, row |-> row, text |-> text]

\* A view cut as log_buffer[:200], the oldest lines.
LogViewHead(buf) == Prefix(buf, LogViewLen)

\* log(msg): append to the buffer, show the most recent 200 lines
LogView(buf) == Suffix(buf, LogViewLen)

\* encoding = detected.get('encoding', 'utf-8') or 'utf-8'
Encoding(detected) == IF detected = NoneVal THEN << "utf-8" >> ELSE detected

\* ------------------------------------------------------------- the sections' guards
\* if st.session_state[sess("csv_uploaded")] is None:
UploaderShown(s) == csv_uploaded[s] = None

\* The processing section drawn without "and not zip_ready".
StartAnyTime(s) == csv_uploaded[s] # None

\* if st.session_state[sess("csv_uploaded")] and not st.session_state[sess("zip_ready")]:
StartAvailable(s) == csv_uploaded[s] # None /\ zip_ready[s] = None

\* The reset button drawn outside the zip_ready section.
ResetAlways(s) == TRUE

\* if st.session_state[sess("zip_ready")]:
DownloadAvailable(s) == zip_ready[s] # None

\* the reset button sits in the same section (lines 126, 132)
ResetAvailable(s) == zip_ready[s] # None

\* The job's state, as the page shows it.
JobState(s) ==
    IF zip_ready[s] # None THEN "Complete"
    ELSE IF pc[s] # "wait" THEN "Processing"
    ELSE IF csv_uploaded[s] # None THEN "Uploaded"
    ELSE "Idle"

\* ------------------------------------------------------------- file upload
\* A script run that ends in st.rerun(), or a run a widget interaction starts,
\* draws the page anew: no st.error, an empty log placeholder, no progress bar.
FreshPage(s) ==
    /\ error' = [error EXCEPT ![s] = ""]
    /\ log_view' = [log_view EXCEPT ![s] = << >>]
    /\ progress' = [progress EXCEPT ![s] = None]

\* Any header at all accepted.
HasAnyColumn(fn) == fn # << >>

\* if "description" not in fieldnames:  (negated)
HasDescription(fn) == "description" \in Range(fn)

\* The user picks file f in the uploader; the script reads, validates and
\* commits it (lines 52-78), then reruns into the Uploaded page (lines 80-86).
Upload(s, F) ==
    /\ pc[s] = "wait"
    /\ UploaderShown(s)
    /\ Len(log_buffer[s]) <= MaxIdleLog
    /\ \E f \in F :
        LET log1 == Append(log_buffer[s], LogLine("encoding", 0, Encoding(f.encoding)))
            log2 == Append(log1, LogLine("csv_error", 0, << "decode" >>))
        IN  IF ~f.decodable
            THEN /\ log_buffer' = [log_buffer EXCEPT ![s] = log2]
                 /\ log_view' = [log_view EXCEPT ![s] = LogView(log2)]
                 /\ error' = [error EXCEPT ![s] = "read_failed"]
                 /\ UNCHANGED << csv_uploaded, rows, fieldnames, input, calls, runs, dirs,
                                 progress >>
            ELSE IF ~HasDescription(f.header)
            THEN /\ log_buffer' = [log_buffer EXCEPT ![s] = log1]
                 /\ log_view' = [log_view EXCEPT ![s] = LogView(log1)]
                 /\ error' = [error EXCEPT ![s] = "no_description"]
                 /\ UNCHANGED << csv_uploaded, rows, fieldnames, input, calls, runs, dirs,
                                 progress >>
            ELSE /\ log_buffer' = [log_buffer EXCEPT ![s] = log1]
                 /\ csv_uploaded' = [csv_uploaded EXCEPT ![s] = Some(f.name)]
                 /\ rows' = [rows EXCEPT ![s] = DictReader(f.header, f.lines)]
                 /\ fieldnames' = [fieldnames EXCEPT ![s] = f.header]
                 /\ input' = [input EXCEPT ![s] = Some(f)]
                 /\ calls' = [calls EXCEPT ![s] = << >>]
                 /\ runs' = [runs EXCEPT ![s] = 0]
                 /\ dirs' = dirs \cup {out_dir[s]}
                 /\ FreshPage(s)
    /\ UNCHANGED << zip_ready, pc, idx, out_dir, downloaded, reply, sleeps, disk >>

\* The user edits "Output folder"; the rerun makes the directory (lines 85-86).
SetOutDir(s, d) ==
    /\ pc[s] = "wait"
    /\ StartAvailable(s)
    /\ d # out_dir[s]
    /\ out_dir' = [out_dir EXCEPT ![s] = d]
    /\ dirs' = dirs \cup {d}
    /\ FreshPage(s)
    /\ UNCHANGED << sessionVars, runVars, downloaded, envVars, disk >>

\* ------------------------------------------------------------- processing
\* The click on "Start Processing": lines 88-91.
StartProcessing(s) ==
    /\ pc[s] = "wait"
    /\ StartAvailable(s)
    /\ runs[s] < MaxRuns
    /\ LET log1 == Append(log_buffer[s], LogLine("start", 0, << >>))
       IN  /\ log_buffer' = [log_buffer EXCEPT ![s] = log1]
           /\ log_view' = [log_view EXCEPT ![s] = LogView(log1)]
    /\ error' = [error EXCEPT ![s] = ""]
    /\ progress' = [progress EXCEPT ![s] = Some(<< 0, 1 >>)]
    /\ pc' = [pc EXCEPT ![s] = "loop"]
    /\ idx' = [idx EXCEPT ![s] = 0]
    /\ runs' = [runs EXCEPT ![s] = @ + 1]
    /\ sleeps' = [sleeps EXCEPT ![s] = << >>]
    /\ reply' = [reply EXCEPT ![s] = None]
    /\ dirs' = dirs \cup {out_dir[s]}
    /\ UNCHANGED << csv_uploaded, rows, fieldnames, zip_ready, out_dir, downloaded,
                    calls, input, disk >>

\* row.get(key, default)
RowGet(row, k, dflt) == IF k \in DOMAIN row THEN row[k] ELSE dflt

\* row["image"] = v
SetImage(row, v) == [k \in DOMAIN row \cup {"image"} |-> IF k = "image" THEN v ELSE row[k]]

\* A loop without the "if not desc" test.
IsEmptyDescNever(desc) == FALSE

\* if not desc:
IsEmptyDesc(desc) == desc = << >>

\* row["image"] = "" of the skipped row (line 96)
SkipImage == << >>

\* if image_url: row["image"] = image_url  else: row["image"] = ""  (lines 101-106)
StoredImage(url) == IF url # << >> THEN url ELSE << >>

\* None stored for the failed row instead of "".
FaultImageNone == NoneVal

\* row["image"] = "" in the except branch (line 111)
FaultImage == << >>

\* The run ends on an exception nothing catches: Streamlit shows it, the
\* session state stays as the run left it.
RunAborts(s, exc) ==
    /\ pc' = [pc EXCEPT ![s] = "wait"]
    /\ idx' = [idx EXCEPT ![s] = 0]
    /\ error' = [error EXCEPT ![s] = exc]

\* None.strip(): the description cell of a short record (line 93)
RowAbort(s, i) ==
    /\ RunAborts(s, "AttributeError")
    /\ UNCHANGED << sessionVars, out_dir, log_view, progress, downloaded, envVars, fsVars >>

\* lines 94-97
RowSkip(s, i) ==
    LET log1 == Append(log_buffer[s], LogLine("skipped", i, << >>))
    IN  /\ log_buffer' = [log_buffer EXCEPT ![s] = log1]
        /\ log_view' = [log_view EXCEPT ![s] = LogView(log1)]
        /\ rows' = [rows EXCEPT ![s][i] = SetImage(@, SkipImage)]
        /\ idx' = [idx EXCEPT ![s] = i]
        /\ UNCHANGED << csv_uploaded, fieldnames, zip_ready, pc, out_dir, error, progress,
                        downloaded, envVars, fsVars >>

\* lines 98-111, the provider answering `out`
RowLookup(s, i, desc, out) ==
    LET log1 == Append(log_buffer[s], LogLine("searching", i, Prefix(desc, LogTextLen)))
        url == GetImageUrl(out.results)
        log2 == IF out.fault THEN Append(log1, LogLine("error", i, out.msg))
                ELSE IF url # << >>
                     THEN Append(log1, LogLine("found", i, Prefix(url, LogTextLen)))
                     ELSE Append(log1, LogLine("not_found", i, << >>))
    IN  /\ calls' = [calls EXCEPT ![s] = Append(@, [run |-> runs[s], row |-> i, query |-> desc])]
        /\ reply' = [reply EXCEPT ![s] = Some(out)]
        /\ log_buffer' = [log_buffer EXCEPT ![s] = log2]
        /\ log_view' = [log_view EXCEPT ![s] = LogView(log2)]
        /\ rows' = [rows EXCEPT ![s][i] =
                      SetImage(@, IF out.fault THEN FaultImage ELSE StoredImage(url))]
        /\ progress' = [progress EXCEPT ![s] =
                          IF out.fault THEN @ ELSE Some(<< i, Len(rows[s]) >>)]
        /\ sleeps' = [sleeps EXCEPT ![s] = IF out.fault THEN @ ELSE Append(@, i)]
        /\ idx' = [idx EXCEPT ![s] = i]
        /\ UNCHANGED << csv_uploaded, fieldnames, zip_ready, pc, out_dir, error, downloaded,
                        runs, input, fsVars >>

\* One pass of the for loop over the row at idx (lines 92-111).
LoopRow(s) ==
    /\ pc[s] = "loop"
    /\ idx[s] < Len(rows[s])
    /\ LET i == idx[s] + 1
           raw == RowGet(rows[s][i], "description", << >>)
       IN  IF raw = NoneVal THEN RowAbort(s, i)
           ELSE IF IsEmptyDesc(Strip(raw)) THEN RowSkip(s, i)
           ELSE \E out \in Outcomes : RowLookup(s, i, Strip(raw), out)

\* ------------------------------------------------------------- the archive
\* csv_path = os.path.join(out_dir, "updated.csv")
CsvPath(s) == out_dir[s]

\* A loop left by a break before its last row.
LoopDoneEarly(s) == TRUE

\* for idx, row in enumerate(rows): the loop ends when rows is exhausted.
LoopDone(s) == idx[s] = Len(rows[s])

\* open(csv_path, "w", ...): the loop is over, the file is made or truncated.
BuildOpen(s) ==
    /\ pc[s] = "loop"
    /\ LoopDone(s)
    /\ disk' = [disk EXCEPT ![CsvPath(s)] = Some(<< >>)]
    /\ pc' = [pc EXCEPT ![s] = "write"]
    /\ reply' = [reply EXCEPT ![s] = None]
    /\ UNCHANGED << sessionVars, idx, pageVars, calls, sleeps, runs, input, dirs >>

\* writeheader(), writerows(rows) and the close that flushes them (lines
\* 118-119); a ValueError of writerows ends the run after the flush.
BuildWrite(s) ==
    /\ pc[s] = "write"
    /\ disk' = [disk EXCEPT ![CsvPath(s)] =
                  Some(Overlay(@[1], WrittenRecords(fieldnames[s], rows[s])))]
    /\ IF WriterRaises(fieldnames[s], rows[s])
       THEN RunAborts(s, "ValueError")
       ELSE /\ pc' = [pc EXCEPT ![s] = "zip"]
            /\ UNCHANGED << idx, error >>
    /\ UNCHANGED << sessionVars, out_dir, log_view, progress, downloaded, envVars, dirs >>

\* zf.write(csv_path, arcname="updated.csv") reads the file as it is now; the
\* bytes go to the session and the script reruns into the Complete page
\* (lines 120-123), where the "Output folder" input is no longer drawn.
BuildZip(s) ==
    /\ pc[s] = "zip"
    /\ zip_ready' = [zip_ready EXCEPT ![s] =
                       Some(<< [arcname |-> "updated.csv", data |-> disk[CsvPath(s)][1]] >>)]
    /\ pc' = [pc EXCEPT ![s] = "wait"]
    /\ idx' = [idx EXCEPT ![s] = 0]
    /\ out_dir' = [out_dir EXCEPT ![s] = DefaultOutDir]
    /\ FreshPage(s)
    /\ UNCHANGED << csv_uploaded, rows, fieldnames, log_buffer, downloaded, envVars, fsVars >>

\* ------------------------------------------------------------- download, reset
\* st.download_button hands the stored bytes to the browser (lines 128-131).
Download(s) ==
    /\ pc[s] = "wait"
    /\ DownloadAvailable(s)
    /\ downloaded' = [downloaded EXCEPT ![s] = zip_ready[s]]
    /\ UNCHANGED << sessionVars, runVars, out_dir, error, log_view, progress, envVars, fsVars >>

\* "log_buffer" left out of the keys reset_app pops.
ResetAppKeepsLog(s) ==
    /\ csv_uploaded' = [csv_uploaded EXCEPT ![s] = None]
    /\ rows' = [rows EXCEPT ![s] = << >>]
    /\ fieldnames' = [fieldnames EXCEPT ![s] = None]
    /\ zip_ready' = [zip_ready EXCEPT ![s] = None]
    /\ UNCHANGED log_buffer

\* reset_app(): pop the five keys and rerun; the rerun's setdefault loop puts
\* the defaults back (lines 36-37, 46-49).
ResetApp(s) ==
    /\ csv_uploaded' = [csv_uploaded EXCEPT ![s] = None]
    /\ rows' = [rows EXCEPT ![s] = << >>]
    /\ fieldnames' = [fieldnames EXCEPT ![s] = None]
    /\ zip_ready' = [zip_ready EXCEPT ![s] = None]
    /\ log_buffer' = [log_buffer EXCEPT ![s] = << >>]

\* The click on "Find New Image Links" (lines 132-133).
Reset(s) ==
    /\ pc[s] = "wait"
    /\ ResetAvailable(s)
    /\ ResetApp(s)
    /\ FreshPage(s)
    /\ downloaded' = [downloaded EXCEPT ![s] = None]
    /\ calls' = [calls EXCEPT ![s] = << >>]
    /\ reply' = [reply EXCEPT ![s] = None]
    /\ sleeps' = [sleeps EXCEPT ![s] = << >>]
    /\ runs' = [runs EXCEPT ![s] = 0]
    /\ input' = [input EXCEPT ![s] = None]
    /\ UNCHANGED << runVars, out_dir, fsVars >>

\* ------------------------------------------------------------- specifications
TabStep(s, F) ==
    \/ Upload(s, F)
    \/ \E d \in OutDirs : SetOutDir(s, d)
    \/ StartProcessing(s)
    \/ LoopRow(s)
    \/ BuildOpen(s)
    \/ BuildWrite(s)
    \/ BuildZip(s)
    \/ Download(s)
    \/ Reset(s)

\* One tab, any file, the "Output folder" input left at its default.
Next ==
    \/ Upload("t1", Files)
    \/ StartProcessing("t1")
    \/ LoopRow("t1")
    \/ BuildOpen("t1")
    \/ BuildWrite("t1")
    \/ BuildZip("t1")
    \/ Download("t1")
    \/ Reset("t1")

Spec == Init /\ [][Next]_vars

\* Two tabs at once, each with a file of its own, every line complete and the
\* header holding "image": one described row in the first tab's file, a row
\* with a blank description before it in the second tab's.
TabLines(s) ==
    IF s = "t1" THEN << << << "a" >>, << "o" >> >> >>
    ELSE << << << " " >>, << "o" >> >>, << << "a" >>, << "o" >> >> >>

TabFiles(s) == {CsvFile(<< "description", "image" >>, TabLines(s))}

NextTabs == \E s \in Tabs : TabStep(s, TabFiles(s))

SpecTabs == Init /\ [][NextTabs]_vars

\* The log alone: log(msg) applied to buffers near the length of the view.
\* The buffers are those of a tab in Idle after n rejected uploads, unreadable
\* files (two lines each) and, for an odd n, a last one lacking "description".
EncodingLine == LogLine("encoding", 0, Encoding(NoneVal))
DecodeLine == LogLine("csv_error", 0, << "decode" >>)
LongLog(n) == [k \in 1..n |-> IF k % 2 = 1 THEN EncodingLine ELSE DecodeLine]
LogLens == (LogViewLen - MaxOverflow)..LogViewLen
LogLines == {EncodingLine, DecodeLine, LogLine("encoding", 0, << "ascii" >>)}

InitLog ==
    /\ csv_uploaded = [s \in Tabs |-> None]
    /\ rows = [s \in Tabs |-> << >>]
    /\ fieldnames = [s \in Tabs |-> None]
    /\ zip_ready = [s \in Tabs |-> None]
    /\ \E n \in LogLens :
          /\ log_buffer = [s \in Tabs |-> IF s = "t1" THEN LongLog(n) ELSE << >>]
          /\ log_view = [s \in Tabs |-> IF s = "t1" THEN LogView(LongLog(n)) ELSE << >>]
          /\ error = [s \in Tabs |-> IF s # "t1" THEN ""
                                     ELSE IF n % 2 = 1 THEN "no_description"
                                     ELSE "read_failed"]
    /\ pc = [s \in Tabs |-> "wait"]
    /\ idx = [s \in Tabs |-> 0]
    /\ out_dir = [s \in Tabs |-> DefaultOutDir]
    /\ progress = [s \in Tabs |-> None]
    /\ downloaded = [s \in Tabs |-> None]
    /\ calls = [s \in Tabs |-> << >>]
    /\ reply = [s \in Tabs |-> None]
    /\ sleeps = [s \in Tabs |-> << >>]
    /\ runs = [s \in Tabs |-> 0]
    /\ input = [s \in Tabs |-> None]
    /\ dirs = {}
    /\ disk = [d \in OutDirs |-> None]

\* log(msg), lines 41-44
LogAppend(s, line) ==
    /\ Len(log_buffer[s]) < LogViewLen + MaxOverflow
    /\ LET log1 == Append(log_buffer[s], line)
       IN  /\ log_buffer' = [log_buffer EXCEPT ![s] = log1]
           /\ log_view' = [log_view EXCEPT ![s] = LogView(log1)]
    /\ UNCHANGED << csv_uploaded, rows, fieldnames, zip_ready, runVars, out_dir, error,
                    progress, downloaded, envVars, fsVars >>

NextLog == \E line \in LogLines : LogAppend("t1", line)

SpecLog == InitLog /\ [][NextLog]_vars

\* ------------------------------------------------------------- properties
\* The records of updated.csv inside a tab's stored archive.
ArchiveData(s) == zip_ready[s][1][1].data

\* The data rows a tab's own rows make under its own field names.
OwnDataRows(s) == [i \in 1..Len(rows[s]) |-> RowCells(fieldnames[s], rows[s][i])]

\* The data rows of a sequence of records: all but the header.
DataRows(recs) == SubSeq(recs, 2, Len(recs))

\* A str of whitespace only (the empty str included).
AllWhitespace(t) == \A i \in 1..Len(t) : t[i] \in Whitespace

HasImage(row) == "image" \in DOMAIN row

\* C1: once the loop has visited every row of a committed upload, the run
\* ends only in Complete, with the archive stored: no run ends on an error or
\* leaves the job in Uploaded.
C1_VisitedJobCompletes ==
    [][\A s \in Tabs :
          (pc[s] # "wait" /\ idx[s] = Len(rows[s]) /\ pc'[s] = "wait")
              => zip_ready'[s] # None]_vars

\* The header the output is to carry.
ExpectedHeader(fn) == IF "image" \in Range(fn) THEN fn ELSE Append(fn, "image")

\* C2: the header record of updated.csv in the stored archive is the tab's
\* field names, in order, with "image" appended when they do not hold it.
C2_HeaderCarriesImage ==
    \A s \in Tabs :
        zip_ready[s] # None =>
            /\ ArchiveData(s) # << >>
            /\ ArchiveData(s)[1] = ExpectedHeader(fieldnames[s])

\* C3: under every interleaving of two tabs, the archive a tab stores holds
\* that tab's own rows and nothing else.
C3_ArchiveHoldsOwnRows ==
    \A s \in Tabs :
        zip_ready[s] # None => DataRows(ArchiveData(s)) = OwnDataRows(s)

\* The run of tab s has written and closed updated.csv.
RunWrote(s) == pc[s] = "zip" \/ error[s] = "ValueError"

\* C4: the updated.csv a run has written holds one data row per input row, in
\* the input's order, whatever the rows' outcomes were.
C4_OutputKeepsEveryRow ==
    \A s \in Tabs :
        /\ RunWrote(s) => DataRows(disk[CsvPath(s)][1]) = OwnDataRows(s)
        /\ zip_ready[s] # None => DataRows(ArchiveData(s)) = OwnDataRows(s)

\* A step in which tab s issues a lookup and the provider raises.
FaultStep(s) ==
    /\ pc[s] = "loop"
    /\ calls'[s] # calls[s]
    /\ reply'[s] # None
    /\ reply'[s][1].fault

\* C5: the step in which a row's lookup raises sets that row's "image" to "",
\* appends an error line for that row with the fault's message, and leaves
\* the loop running at the next row, no row dropped.
C5_FaultAbsorbed ==
    [][\A s \in Tabs :
          FaultStep(s) =>
              LET i == idx[s] + 1
              IN  /\ HasImage(rows'[s][i])
                  /\ rows'[s][i]["image"] = << >>
                  /\ log_buffer'[s][Len(log_buffer'[s])] = LogLine("error", i, reply'[s][1].msg)
                  /\ pc'[s] = "loop"
                  /\ idx'[s] = i
                  /\ Len(rows'[s]) = Len(rows[s])
                  /\ error'[s] = ""]_vars

C5_Witness ==
    \E s \in Tabs :
        /\ pc[s] = "loop"
        /\ idx[s] = 2
        /\ \E j \in 1..Len(log_buffer[s]) :
              log_buffer[s][j].kind = "error" /\ log_buffer[s][j].row = 1
        /\ rows[s][1]["image"] = << >>
        /\ rows[s][2]["image"] # << >>

\* C6: a row the loop has passed whose description is empty or whitespace
\* only has "image" = "" and no lookup was ever issued for it.
C6_BlankDescriptionSkipped ==
    \A s \in Tabs :
        \A i \in 1..Len(rows[s]) :
            (pc[s] = "loop" /\ i <= idx[s] /\ AllWhitespace(rows[s][i]["description"])) =>
                /\ HasImage(rows[s][i])
                /\ rows[s][i]["image"] = << >>
                /\ \A c \in 1..Len(calls[s]) : calls[s][c].row # i

C6_Witness ==
    \E s \in Tabs :
        /\ pc[s] = "loop"
        /\ idx[s] = 2
        /\ rows[s][1]["description"] = << " " >>
        /\ rows[s][1]["image"] = << >>
        /\ Len(calls[s]) = 1
        /\ calls[s][1].row = 2

\* The latest lookup of tab s.
LastCall(s) == calls[s][Len(calls[s])]

\* C7: after a lookup that returned at least one candidate, the "image" of the
\* row looked up is the first candidate's URL, unchanged.
C7_FirstCandidateStored ==
    \A s \in Tabs :
        (pc[s] = "loop" /\ reply[s] # None /\ ~reply[s][1].fault /\ reply[s][1].results # << >>) =>
            /\ calls[s] # << >>
            /\ LastCall(s).row <= idx[s]
            /\ HasImage(rows[s][LastCall(s).row])
            /\ rows[s][LastCall(s).row]["image"] = reply[s][1].results[1].image

C7_Witness ==
    \E s \in Tabs :
        /\ pc[s] = "loop"
        /\ reply[s] # None
        /\ Len(reply[s][1].results) = 2
        /\ reply[s][1].results[1].image = << "u" >>
        /\ reply[s][1].results[2].image = << "w" >>
        /\ rows[s][LastCall(s).row]["image"] = << "u" >>

\* A step in which tab s has an upload turned down for its columns.
RejectedUpload(s) ==
    /\ UploaderShown(s)
    /\ error'[s] = "no_description"
    /\ << error[s], log_buffer[s] >> # << error'[s], log_buffer'[s] >>

KeepsUpload(s) ==
    /\ csv_uploaded'[s] = csv_uploaded[s]
    /\ rows'[s] = rows[s]
    /\ fieldnames'[s] = fieldnames[s]
    /\ zip_ready'[s] = zip_ready[s]
    /\ ~StartAvailable(s)'

\* C8: when the uploaded CSV has no "description" column an error is shown,
\* Start Processing does not become available, and the session state is left
\* as it was: file name, rows, field names, archive and log lines.
C8_RejectedUploadChangesNothing ==
    [][\A s \in Tabs :
          RejectedUpload(s) => KeepsUpload(s) /\ log_buffer'[s] = log_buffer[s]]_vars

\* C8 as amended: file name, rows, field names and archive are left as they
\* were and Start Processing stays unavailable; the log gains one line, the
\* detected encoding.  No upload without a "description" column is committed.
C8_RejectedUploadOnlyLogs ==
    [][\A s \in Tabs :
          /\ RejectedUpload(s) =>
                /\ KeepsUpload(s)
                /\ Len(log_buffer'[s]) = Len(log_buffer[s]) + 1
                /\ SubSeq(log_buffer'[s], 1, Len(log_buffer[s])) = log_buffer[s]
                /\ log_buffer'[s][Len(log_buffer'[s])].kind = "encoding"
          /\ input'[s] # None => "description" \in Range(input'[s][1].header)]_vars

C8_Witness ==
    \E s \in Tabs :
        /\ error[s] = "no_description"
        /\ csv_uploaded[s] = None
        /\ Len(log_buffer[s]) = 2
        /\ log_buffer[s][2].kind = "encoding"

\* A step that takes the archive of tab s away.
ResetStep(s) == zip_ready[s] # None /\ zip_ready'[s] = None

Cleared(s) ==
    /\ csv_uploaded[s] = None
    /\ rows[s] = << >>
    /\ fieldnames[s] = None
    /\ zip_ready[s] = None
    /\ log_buffer[s] = << >>
    /\ log_view[s] = << >>
    /\ JobState(s) = "Idle"

FreshUpload(s) ==
    (csv_uploaded[s] # None /\ runs[s] = 0) =>
        /\ csv_uploaded[s] = Some(input[s][1].name)
        /\ rows[s] = DictReader(input[s][1].header, input[s][1].lines)
        /\ fieldnames[s] = input[s][1].header
        /\ zip_ready[s] = None
        /\ \A j \in 1..Len(log_buffer[s]) : log_buffer[s][j].kind \in {"encoding", "csv_error"}

\* C9: a reset leaves the tab in Idle with no file name, no rows, no field
\* names, no archive and an empty log; an upload committed afterwards holds
\* its own file's rows and field names, and its log holds upload lines only.
C9_ResetClearsSession ==
    [][\A s \in Tabs : (ResetStep(s) => Cleared(s)') /\ FreshUpload(s)']_vars

C9_Witness ==
    \E s \in Tabs :
        /\ csv_uploaded[s] # None
        /\ runs[s] = 0
        /\ Len(log_buffer[s]) = 1
        /\ disk[DefaultOutDir] # None
        /\ \A t \in Tabs \ {s} : input[t] = None

\* C10: the reset trigger is there in every job state.
C10_ResetFromAnyState == \A s \in Tabs : ResetAvailable(s)

\* C10 as amended: session data is discarded only by the reset from Complete,
\* which leads to Idle; Idle, Uploaded and Processing offer no reset.
C10_ResetOnlyFromComplete ==
    [][\A s \in Tabs :
          (csv_uploaded[s] # None /\ csv_uploaded'[s] = None) =>
              /\ JobState(s) = "Complete"
              /\ pc[s] = "wait"
              /\ Cleared(s)']_vars

C10_Witness ==
    \E s \in Tabs :
        /\ JobState(s) = "Idle"
        /\ log_buffer[s] = << >>
        /\ disk[DefaultOutDir] # None
        /\ disk[DefaultOutDir][1] # << >>
        /\ \A t \in Tabs \ {s} : input[t] = None

\* The rows of the lookups tab s has issued in its current run, in call order.
RunCallRows(s) ==
    LET InRun(c) == c.run = runs[s]
        mine == SelectSeq(calls[s], InRun)
    IN  [k \in 1..Len(mine) |-> mine[k].row]

\* C11: inside a run the loop has paused once after every lookup attempt it
\* has made, whether the lookup returned or raised, and after no skipped row:
\* the rows it paused after are the rows it looked up, in order.
C11_PauseAfterEveryLookup ==
    \A s \in Tabs : pc[s] = "loop" => sleeps[s] = RunCallRows(s)

\* C12: after the loop has handled the i-th of n rows, whatever the row's
\* outcome, the progress indicator shows the fraction i/n; it shows 1 when the
\* loop has finished a batch with rows.
C12_ProgressIsRowsHandled ==
    \A s \in Tabs :
        (pc[s] # "wait" /\ idx[s] >= 1) =>
            /\ progress[s] # None
            /\ progress[s][1][1] * Len(rows[s]) = idx[s] * progress[s][1][2]

\* The lines tab s has logged since its latest "start" line.
RunLog(s) ==
    LET buf == log_buffer[s]
        starts == {k \in 1..Len(buf) : buf[k].kind = "start"}
        last == IF starts = {} THEN 0
                ELSE CHOOSE k \in starts : \A j \in starts : j <= k
    IN  SubSeq(buf, last + 1, Len(buf))

\* The latest run of tab s has logged the handling of its row i.
Visited(s, i) ==
    \E k \in 1..Len(RunLog(s)) :
        /\ RunLog(s)[k].row = i
        /\ RunLog(s)[k].kind \in {"skipped", "searching"}

\* C13: an archive is present in a tab only while a file is loaded there and
\* every row of it has been visited by the loop and carries an "image" field.
C13_ArchiveImpliesAllVisited ==
    \A s \in Tabs :
        zip_ready[s] # None =>
            /\ csv_uploaded[s] # None
            /\ \A i \in 1..Len(rows[s]) :
                  /\ Visited(s, i)
                  /\ HasImage(rows[s][i])
                  /\ rows[s][i]["image"] # NoneVal

C13_Witness ==
    \E s \in Tabs :
        /\ zip_ready[s] # None
        /\ Len(rows[s]) >= 2
        /\ Len(calls[s]) = 1
        /\ \E i \in 1..Len(rows[s]) : rows[s][i]["image"] = << >>
        /\ \E i \in 1..Len(rows[s]) : rows[s][i]["image"] # << >>

\* The rows of tab s whose description is text other than whitespace.
Described(s, i) ==
    LET d == rows[s][i]["description"]
    IN  d # NoneVal /\ ~AllWhitespace(d)

\* Every lookup of the latest run of tab s came back with a URL.
EveryLookupFound(s) ==
    \A k \in 1..Len(RunLog(s)) : RunLog(s)[k].kind \notin {"error", "not_found"}

\* The data records of an output whose "image" cell is not empty.
WithImage(recs) ==
    {i \in 2..Len(recs) :
        /\ "image" \in Range(recs[1])
        /\ recs[i][Column(recs[1], "image")] # << >>}

\* C14: a run over N rows of which K have a description, every lookup of it
\* answered with a URL and none raising, writes an updated.csv of N data rows
\* of which exactly K have a non-empty "image" cell.
C14_EveryDescribedRowGetsUrl ==
    \A s \in Tabs :
        (RunWrote(s) /\ EveryLookupFound(s)) =>
            LET out == disk[CsvPath(s)][1]
            IN  /\ Len(out) = Len(rows[s]) + 1
                /\ Cardinality(WithImage(out))
                     = Cardinality({i \in 1..Len(rows[s]) : Described(s, i)})

\* C15: inside a run the lookups issued so far are the visited rows that have
\* a description, in input order, once each; every visited row is handled and
\* no row beyond the visited ones has been looked up.
C15_LookupsFollowRows ==
    \A s \in Tabs :
        pc[s] # "wait" =>
            LET IsDue(i) == Described(s, i)
                due == SelectSeq([i \in 1..idx[s] |-> i], IsDue)
            IN  /\ RunCallRows(s) = due
                /\ \A i \in 1..idx[s] : HasImage(rows[s][i])

C15_Witness ==
    \E s \in Tabs :
        /\ pc[s] = "write"
        /\ runs[s] = 1
        /\ RunCallRows(s) = << 1, 2 >>
        /\ \E k \in 1..Len(RunLog(s)) : RunLog(s)[k].kind = "error" /\ RunLog(s)[k].row = 1
        /\ \E k \in 1..Len(RunLog(s)) : RunLog(s)[k].kind = "not_found" /\ RunLog(s)[k].row = 2

\* C16: no fault inside a run aborts it: from every row the reader can make,
\* a short one without a description included, a step of the loop leaves the
\* run in the loop.
C16_NoFaultAbortsRun ==
    [][\A s \in Tabs :
          (pc[s] = "loop" /\ idx[s] < Len(rows[s])) => pc'[s] = "loop"]_vars

\* C17: between an upload and the next reset no row is looked up a second
\* time, whatever the Start triggers were.
C17_RowLookedUpOnce ==
    \A s \in Tabs :
        \A i \in 1..Len(rows[s]) :
            Cardinality({k \in 1..Len(calls[s]) : calls[s][k].row = i}) <= 1

\* C18: after every log call the view is the last min(n, 200) of the n lines
\* of the buffer, in the buffer's order.
C18_ViewIsLastLines ==
    \A s \in Tabs :
        LET n == Len(log_buffer[s])
            m == IF n < 200 THEN n ELSE 200
        IN  /\ Len(log_view[s]) = m
            /\ \A k \in 1..m : log_view[s][k] = log_buffer[s][n - m + k]

C18_Witness ==
    \E s \in Tabs :
        /\ Len(log_buffer[s]) = 202
        /\ Len(log_view[s]) = 200
        /\ log_buffer[s][1] = EncodingLine
        /\ log_view[s][1] = log_buffer[s][3]
        /\ log_view[s][200].text = << "ascii" >>
        /\ log_view[s][199] = EncodingLine

\* C19: the triggers exclude one another by job state.  A file and its field
\* names change only by the reset; a run starts only with a file loaded and no
\* archive; download and reset act only with the archive present; with the
\* archive present no run starts and no row or lookup is added.
C19_TriggersExclusive ==
    [][\A s \in Tabs :
          /\ zip_ready[s] # None => csv_uploaded[s] # None
          /\ zip_ready'[s] # None => csv_uploaded'[s] # None
          /\ csv_uploaded[s] # None =>
                \/ csv_uploaded'[s] = csv_uploaded[s] /\ fieldnames'[s] = fieldnames[s]
                \/ zip_ready[s] # None /\ csv_uploaded'[s] = None
          /\ runs'[s] = runs[s] + 1 =>
                csv_uploaded[s] # None /\ zip_ready[s] = None /\ pc[s] = "wait"
          /\ (downloaded'[s] # downloaded[s] /\ downloaded'[s] # None) =>
                zip_ready[s] # None
          /\ zip_ready[s] # None =>
                /\ pc'[s] = "wait"
                /\ runs'[s] <= runs[s]
                /\ calls'[s] \in {calls[s], << >>}
                /\ rows'[s] = rows[s] \/ csv_uploaded'[s] = None]_vars

C19_Witness ==
    \E s \in Tabs :
        /\ zip_ready[s] # None
        /\ downloaded[s] # None
        /\ runs[s] = 1
        /\ Len(calls[s]) = Len(rows[s])
        /\ Len(rows[s]) >= 2
====
